---- MODULE Spec2Model ----
(***************************************************************************)
(* Model of the authentication demo backend (backend/server.js): the       *)
(* in-memory user table, the /register and /login handlers with their      *)
(* suspension points (await bcrypt.hash, await bcrypt.compare), and the    *)
(* token issued by jwt.sign.                                               *)
(*                                                                         *)
(* Strings are sequences of one-character strings, so that trim and        *)
(* toLowerCase are computed and not assumed.  A JavaScript value is a      *)
(* record [t, v]: t is the typeof tag, v the characters of a string.       *)
(***************************************************************************)
EXTENDS Integers, Sequences, FiniteSets, Bags, TLC

\* ------------------------------------------------------------------------
\* Bounds of the model
\* ------------------------------------------------------------------------
MaxRequests == 3
MaxSalt == 1

Salts == 1..MaxSalt

\* ------------------------------------------------------------------------
\* Program constants
\* ------------------------------------------------------------------------
EmailMaxLen == 254
PasswordMinLen == 8
PasswordMaxLen == 128
UsernameMinLen == 3
UsernameMaxLen == 30
BcryptRounds == 10
BcryptMaxBytes == 72
ExpiresInSeconds == 3600
ClientPasswordMinLen == 8

\* ------------------------------------------------------------------------
\* JavaScript values and strings
\* ------------------------------------------------------------------------
Undefined == [t |-> "undefined", v |-> <<>>]
Str(s) == [t |-> "string", v |-> s]

IsString(x) == x.t = "string"
\* !x for the values of the model: undefined and "" are falsy
Falsy(x) == x.t = "undefined" \/ (x.t = "string" /\ x.v = <<>>)

IsSpace(c) == c \in {" ", "\t", "\n"}

UpperCaseLetters ==
    << "A", "B", "C", "D", "E", "F", "G", "H", "I", "J", "K", "L", "M",
       "N", "O", "P", "Q", "R", "S", "T", "U", "V", "W", "X", "Y", "Z" >>
LowerCaseLetters ==
    << "a", "b", "c", "d", "e", "f", "g", "h", "i", "j", "k", "l", "m",
       "n", "o", "p", "q", "r", "s", "t", "u", "v", "w", "x", "y", "z" >>

Lower(c) ==
    IF \E i \in 1..26 : UpperCaseLetters[i] = c
    THEN LowerCaseLetters[CHOOSE i \in 1..26 : UpperCaseLetters[i] = c]
    ELSE c

ToLowerCase(s) == [i \in 1..Len(s) |-> Lower(s[i])]

SetMin(S) == CHOOSE x \in S : \A y \in S : x <= y
SetMax(S) == CHOOSE x \in S : \A y \in S : x >= y

Trim(s) ==
    LET keep == {i \in 1..Len(s) : ~IsSpace(s[i])}
    IN  IF keep = {} THEN <<>> ELSE SubSeq(s, SetMin(keep), SetMax(keep))

Rep(c, n) == [i \in 1..n |-> c]

\* /^[^\s@]+@[^\s@]+\.[^\s@]+$/ : [^\s@] also matches ".", so any "." after
\* the "@" can be the separating dot
NoSpaceAt(s, lo, hi) ==
    /\ lo <= hi
    /\ \A k \in lo..hi : ~IsSpace(s[k]) /\ s[k] # "@"

emailRegex(s) ==
    \E i \in 1..Len(s) : \E j \in 1..Len(s) :
        /\ i < j
        /\ s[i] = "@"
        /\ s[j] = "."
        /\ NoSpaceAt(s, 1, i - 1)
        /\ NoSpaceAt(s, i + 1, j - 1)
        /\ NoSpaceAt(s, j + 1, Len(s))

\* ------------------------------------------------------------------------
\* validateAuthPayload
\* ------------------------------------------------------------------------
\* the length and the format each tested on their own
EmailErrors_BothTests(email) ==
    IF Falsy(email) \/ ~IsString(email) \/ Trim(email.v) = <<>>
    THEN <<"Email is required.">>
    ELSE LET trimmedEmail == Trim(email.v)
         IN  (IF Len(trimmedEmail) > EmailMaxLen
              THEN <<"Email must be 254 characters or less.">> ELSE <<>>)
             \o (IF ~emailRegex(trimmedEmail)
                 THEN <<"Email format is invalid.">> ELSE <<>>)

EmailErrors(email) ==
    IF Falsy(email) \/ ~IsString(email) \/ Trim(email.v) = <<>>
    THEN <<"Email is required.">>
    ELSE LET trimmedEmail == Trim(email.v)
         IN  IF Len(trimmedEmail) > EmailMaxLen
             THEN <<"Email must be 254 characters or less.">>
             ELSE IF ~emailRegex(trimmedEmail)
                  THEN <<"Email format is invalid.">>
                  ELSE <<>>

\* the upper limit tested with >=
PasswordErrors_MaxExcluded(password) ==
    IF Falsy(password) \/ ~IsString(password) \/ Trim(password.v) = <<>>
    THEN <<"Password is required.">>
    ELSE LET trimmedPassword == Trim(password.v)
         IN  IF Len(trimmedPassword) < PasswordMinLen
             THEN <<"Password must be at least 8 characters long.">>
             ELSE IF Len(trimmedPassword) >= PasswordMaxLen
                  THEN <<"Password must be 128 characters or less.">>
                  ELSE <<>>

PasswordErrors(password) ==
    IF Falsy(password) \/ ~IsString(password) \/ Trim(password.v) = <<>>
    THEN <<"Password is required.">>
    ELSE LET trimmedPassword == Trim(password.v)
         IN  IF Len(trimmedPassword) < PasswordMinLen
             THEN <<"Password must be at least 8 characters long.">>
             ELSE IF Len(trimmedPassword) > PasswordMaxLen
                  THEN <<"Password must be 128 characters or less.">>
                  ELSE <<>>

\* the required test without the blank case
UsernameErrors_BlankUntested(username, requireUsername) ==
    IF ~requireUsername THEN <<>>
    ELSE IF Falsy(username) \/ ~IsString(username)
    THEN <<"Username is required.">>
    ELSE LET trimmedUsername == Trim(username.v)
         IN  IF Len(trimmedUsername) < UsernameMinLen
             THEN <<"Username must be at least 3 characters long.">>
             ELSE IF Len(trimmedUsername) > UsernameMaxLen
                  THEN <<"Username must be 30 characters or less.">>
                  ELSE <<>>

UsernameErrors(username, requireUsername) ==
    IF ~requireUsername THEN <<>>
    ELSE IF Falsy(username) \/ ~IsString(username) \/ Trim(username.v) = <<>>
    THEN <<"Username is required.">>
    ELSE LET trimmedUsername == Trim(username.v)
         IN  IF Len(trimmedUsername) < UsernameMinLen
             THEN <<"Username must be at least 3 characters long.">>
             ELSE IF Len(trimmedUsername) > UsernameMaxLen
                  THEN <<"Username must be 30 characters or less.">>
                  ELSE <<>>

\* returning at the first field that fails
validateAuthPayload_FirstFailure(body, requireUsername) ==
    IF EmailErrors(body.email) # <<>> THEN EmailErrors(body.email)
    ELSE IF PasswordErrors(body.password) # <<>> THEN PasswordErrors(body.password)
    ELSE UsernameErrors(body.username, requireUsername)

validateAuthPayload(body, requireUsername) ==
    EmailErrors(body.email) \o PasswordErrors(body.password)
        \o UsernameErrors(body.username, requireUsername)

\* ------------------------------------------------------------------------
\* bcrypt and jsonwebtoken
\* ------------------------------------------------------------------------
\* bcrypt reads at most the first 72 bytes of the password; the characters
\* of the model are one byte each
BcryptKey(password) ==
    SubSeq(password, 1, IF Len(password) < BcryptMaxBytes
                        THEN Len(password) ELSE BcryptMaxBytes)

\* the hash carries its salt and cost; the digest is determined by the
\* salt, the cost and the bytes bcrypt reads
BcryptHash(password, rounds, salt) ==
    [salt |-> salt, rounds |-> rounds,
     digest |-> <<salt, rounds, BcryptKey(password)>>]

BcryptCompare(password, hash) ==
    BcryptHash(password, hash.rounds, hash.salt).digest = hash.digest

JwtHeader == [alg |-> "HS256", typ |-> "JWT"]

Hmac(header, payload, secret) ==
    [key |-> secret, header |-> header, payload |-> payload]

\* jwt.sign(payload, secret, {expiresIn: "1h"}) at time now: the signed
\* payload is the given one plus the registered claims iat and exp
JwtSign(payload, secret, now) ==
    LET claims == payload @@ [iat |-> now, exp |-> now + ExpiresInSeconds]
    IN  [header |-> JwtHeader, payload |-> claims,
         signature |-> Hmac(JwtHeader, claims, secret)]

JwtVerify(token, secret) ==
    IF token.signature = Hmac(token.header, token.payload, secret)
    THEN token.payload
    ELSE [error |-> "invalid signature"]

\* ------------------------------------------------------------------------
\* Request payloads
\* ------------------------------------------------------------------------
LongPassword1 == Rep("x", BcryptMaxBytes) \o <<"1">>
LongPassword2 == Rep("x", BcryptMaxBytes) \o <<"2">>
Password3 == <<"p", "a", "s", "s", "w", "0", "r", "d">>

\* registrations that collide on the email, on the username, on both or on
\* neither, and one that fails validation
Usernames ==
    { Str(<<"b", "o", "b">>), Str(<<" ", "B", "o", "b">>),
      Str(<<"a", "m", "y">>), Str(<<"a", "l">>) }

Emails ==
    { Str(<<"a", "@", "b", ".", "c">>),
      Str(<<" ", "A", "@", "B", ".", "c", " ">>),
      Str(<<"m", "@", "y", ".", "c">>) }

RegisterBodies ==
    [username : Usernames, email : Emails, password : {Str(Password3)}]
LoginBodies ==
    [username : {Undefined}, email : {Str(<<"a", "@", "b", ".", "c">>)},
     password : {Str(Password3), Str(<<"s", "h", "o", "r", "t">>)}]

\* credentials: two accounts that can race for one email with different
\* passwords, and logins with a known or an unknown email and a right, a
\* wrong, a long or an invalid password
CredentialRegisterBodies ==
    [username : {Str(<<"b", "o", "b">>), Str(<<"a", "m", "y">>)},
     email : {Str(<<" ", "A", "@", "B", ".", "c", " ">>)},
     password : {Str(LongPassword1), Str(Password3)}]
CredentialLoginBodies ==
    [username : {Undefined},
     email : {Str(<<"a", "@", "b", ".", "c">>), Str(<<"m", "@", "y", ".", "c">>)},
     password : {Str(LongPassword1), Str(LongPassword2), Str(Password3),
                 Str(<<"s", "h", "o", "r", "t">>)}]
NoBody == [username |-> Undefined, email |-> Undefined, password |-> Undefined]

\* ------------------------------------------------------------------------
\* State
\* ------------------------------------------------------------------------
VARIABLES
    JWT_SECRET,   \* process.env.JWT_SECRET as read at startup
    exited,       \* process.exit was called at startup
    exitCode,     \* its argument
    listening,    \* app.listen was reached
    users,        \* the in-memory user table
    inflight,     \* bag of handlers suspended at an await
    received,     \* requests received so far; the clock ticks once for each
    answered,     \* history: responses sent so far
    given,        \* history: the payload of each registration answered 201
    last          \* the last exchange completed: request and response

\* one call of validateAuthPayload on its own
VARIABLES
    argPayload,          \* its first argument
    argRequireUsername,  \* the option of its second argument
    errors,              \* the array it returned
    returned             \* whether it has returned

\* the page of frontend/app.js
VARIABLES
    activeTab,       \* "login" or "register": the tab and form with class active
    messages,        \* the #messages element
    loginSubmit,     \* the #login-submit button
    registerSubmit,  \* the #register-submit button
    tokenContainer,  \* the #token-container element
    tokenOutput,     \* textContent of #token-output
    loginCall,       \* the login submit handler: idle, or suspended at an await
    registerCall,    \* the register submit handler, likewise
    lastToken        \* history: data.token of the last login answered ok

server == <<JWT_SECRET, exited, exitCode, listening, users, inflight, received,
            answered, given, last>>
validation == <<argPayload, argRequireUsername, errors, returned>>
page == <<activeTab, messages, loginSubmit, registerSubmit, tokenContainer,
          tokenOutput, loginCall, registerCall, lastToken>>

vars == <<server, validation, page>>

NoExchange ==
    [kind |-> "none", body |-> NoBody, status |-> 0, json |-> <<>>,
     user |-> 0, seen |-> 0]

Secrets == { Undefined, Str(<<>>), Str(<<"k", "1">>) }

\* validateAuthPayload not called on its own
NotCalled ==
    /\ argPayload = NoBody
    /\ argRequireUsername = FALSE
    /\ errors = <<>>
    /\ returned = FALSE

\* an element without children: innerHTML = ""
NoChildren == <<>>
Idle == [at |-> "idle"]

\* the page as index.html delivers it: the login tab active, no message,
\* both buttons enabled under their labels, the token container hidden
PageLoaded ==
    /\ activeTab = "login"
    /\ messages = [classList |-> {"hidden"}, children |-> NoChildren]
    /\ loginSubmit = [disabled |-> FALSE, classList |-> {}, textContent |-> "Log In"]
    /\ registerSubmit =
          [disabled |-> FALSE, classList |-> {}, textContent |-> "Create Account"]
    /\ tokenContainer = {"hidden"}
    /\ tokenOutput = <<>>
    /\ loginCall = Idle
    /\ registerCall = Idle
    /\ lastToken = Undefined

\* the process started with the secret left unchecked, as before the
\* startup check was written
Started_SecretUnchecked ==
    /\ JWT_SECRET \in Secrets
    /\ exited = FALSE
    /\ exitCode = 0
    /\ listening = TRUE
    /\ users = <<>>
    /\ inflight = EmptyBag
    /\ received = 0
    /\ answered = 0
    /\ given = <<>>
    /\ last = NoExchange

\* the module evaluated to its end: process.exit(1) when the secret is
\* missing, app.listen otherwise
Started ==
    /\ JWT_SECRET \in Secrets
    /\ exited = Falsy(JWT_SECRET)
    /\ exitCode = IF Falsy(JWT_SECRET) THEN 1 ELSE 0
    /\ listening = ~Falsy(JWT_SECRET)
    /\ users = <<>>
    /\ inflight = EmptyBag
    /\ received = 0
    /\ answered = 0
    /\ given = <<>>
    /\ last = NoExchange

Init ==
    /\ Started
    /\ NotCalled
    /\ PageLoaded

startup == <<JWT_SECRET, exited, exitCode, listening>>

\* ------------------------------------------------------------------------
\* The user table
\* ------------------------------------------------------------------------
\* users.find(pred): index of the first match, 0 for undefined
FindFirst(matches) == IF matches = {} THEN 0 ELSE SetMin(matches)

\* users.find((u) => u.email.toLowerCase() === normalizedEmail)
FindByEmail(us, normalizedEmail) ==
    FindFirst({k \in 1..Len(us) : ToLowerCase(us[k].email) = normalizedEmail})

\* users.find((u) => u.username.toLowerCase() === normalizedUsername.toLowerCase())
FindByUsername(us, normalizedUsername) ==
    FindFirst({k \in 1..Len(us) :
                  ToLowerCase(us[k].username) = ToLowerCase(normalizedUsername)})

NormalizeEmail(email) == ToLowerCase(Trim(email.v))
\* the username lower-cased for storage as it is for comparison
NormalizeUsername_LowerCased(username) == ToLowerCase(Trim(username.v))

NormalizeUsername(username) == Trim(username.v)

\* the id taken from the length before the push, without the + 1
NewUser_IdIsLength(us, normalizedUsername, normalizedEmail, passwordHash, now) ==
    [id |-> Len(us),
     username |-> normalizedUsername,
     email |-> normalizedEmail,
     passwordHash |-> passwordHash,
     createdAt |-> now]

NewUser(us, normalizedUsername, normalizedEmail, passwordHash, now) ==
    [id |-> Len(us) + 1,
     username |-> normalizedUsername,
     email |-> normalizedEmail,
     passwordHash |-> passwordHash,
     createdAt |-> now]

\* ------------------------------------------------------------------------
\* Responses
\* ------------------------------------------------------------------------
Response(status, json) == [status |-> status, json |-> json]

ValidationFailed(validationErrors) ==
    Response(400, [success |-> FALSE, message |-> "Validation failed.",
                   errors |-> validationErrors])

\* the chain with the email test first, so that the test for both is dead
DuplicateResponse_EmailFirst(existingEmail, existingUsername) ==
    IF existingEmail # 0
    THEN Response(409, [success |-> FALSE,
                        message |-> "An account with this email already exists."])
    ELSE IF existingUsername # 0
    THEN Response(409, [success |-> FALSE,
                        message |-> "This username is already taken."])
    ELSE Response(0, <<>>)

\* the if / else if chain after the two lookups of /register; status 0
\* stands for falling through to the hashing
DuplicateResponse(existingEmail, existingUsername) ==
    IF existingEmail # 0 /\ existingUsername # 0
    THEN Response(409, [success |-> FALSE,
                        message |-> "Both username and email are already taken."])
    ELSE IF existingEmail # 0
    THEN Response(409, [success |-> FALSE,
                        message |-> "An account with this email already exists."])
    ELSE IF existingUsername # 0
    THEN Response(409, [success |-> FALSE,
                        message |-> "This username is already taken."])
    ELSE Response(0, <<>>)

\* the stored user echoed in the body
Registered_EchoUser(newUser) ==
    Response(201, [success |-> TRUE, message |-> "User registered successfully.",
                   user |-> newUser])

Registered(newUser) ==
    Response(201, [success |-> TRUE, message |-> "User registered successfully."])

\* the message of the caught error sent to the client
Unexpected_ErrorMessage ==
    Response(500, [success |-> FALSE, message |-> "data and salt arguments required"])

Unexpected ==
    Response(500, [success |-> FALSE, message |-> "An unexpected error occurred."])

UserNotFound ==
    Response(401, [success |-> FALSE, message |-> "Invalid email or password."])

\* a message of its own for the wrong password
PasswordMismatch_OwnMessage ==
    Response(401, [success |-> FALSE, message |-> "Incorrect password."])

PasswordMismatch ==
    Response(401, [success |-> FALSE, message |-> "Invalid email or password."])

\* the whole user object signed
TokenPayload_WholeUser(user) ==
    [id |-> user.id, username |-> user.username, email |-> user.email,
     passwordHash |-> user.passwordHash, createdAt |-> user.createdAt]

TokenPayload(user) ==
    [id |-> user.id, username |-> user.username, email |-> user.email]

LoggedIn(token) ==
    Response(200, [success |-> TRUE, message |-> "Login successful.",
                   token |-> token])

RootResponse == Response(200, [message |-> "Auth API is running."])

Exchange(kind, body, response, user, seen) ==
    [kind |-> kind, body |-> body, status |-> response.status,
     json |-> response.json, user |-> user, seen |-> seen]

Suspended(kind, body, user, seen) ==
    [kind |-> kind, body |-> body, user |-> user, seen |-> seen]

Registering == {r \in BagToSet(inflight) : r.kind = "register"}
LoggingIn == {r \in BagToSet(inflight) : r.kind = "login"}

\* the logging middleware runs first for every request
Receive ==
    /\ listening
    /\ received < MaxRequests
    /\ received' = received + 1

\* new Date(), in the seconds of the model's clock
Now == received

\* res.status(...).json(...): one response leaves the server
Respond == answered' = answered + 1

Await(r) == inflight (+) SetToBag({r})
Resume(r) == inflight (-) SetToBag({r})

\* ------------------------------------------------------------------------
\* POST /register
\* ------------------------------------------------------------------------
\* the duplicate checks run before the validation
RegisterStart_DuplicatesFirst(body) ==
    /\ Receive
    /\ LET validationErrors == validateAuthPayload(body, TRUE)
           dup == DuplicateResponse(FindByEmail(users, NormalizeEmail(body.email)),
                                    FindByUsername(users, NormalizeUsername(body.username)))
       IN  IF dup.status # 0
           THEN /\ last' = Exchange("register", body, dup, 0, 0)
                /\ Respond
                /\ UNCHANGED inflight
           ELSE IF Len(validationErrors) > 0
           THEN /\ last' = Exchange("register", body,
                                    ValidationFailed(validationErrors), 0, 0)
                /\ Respond
                /\ UNCHANGED inflight
           ELSE /\ inflight' = Await(Suspended("register", body, 0, 0))
                /\ UNCHANGED <<last, answered>>
    /\ UNCHANGED <<startup, validation, page, users, given>>

\* from the start of the handler to its first response or to the await of
\* bcrypt.hash
RegisterStart(body) ==
    /\ Receive
    /\ LET validationErrors == validateAuthPayload(body, TRUE)
       IN  IF Len(validationErrors) > 0
           THEN /\ last' = Exchange("register", body,
                                    ValidationFailed(validationErrors), 0, 0)
                /\ Respond
                /\ UNCHANGED inflight
           ELSE LET normalizedEmail == NormalizeEmail(body.email)
                    normalizedUsername == NormalizeUsername(body.username)
                    existingEmail == FindByEmail(users, normalizedEmail)
                    existingUsername == FindByUsername(users, normalizedUsername)
                    dup == DuplicateResponse(existingEmail, existingUsername)
                IN  IF dup.status # 0
                    THEN /\ last' = Exchange("register", body, dup, 0, 0)
                         /\ Respond
                         /\ UNCHANGED inflight
                    ELSE /\ inflight' = Await(Suspended("register", body, 0, 0))
                         /\ UNCHANGED <<last, answered>>
    /\ UNCHANGED <<startup, validation, page, users, given>>

\* the new user put at the head of the table: users.unshift(newUser)
RegisterResume_Unshift(r) ==
    /\ r \in Registering
    /\ \E salt \in Salts :
        LET passwordHash == BcryptHash(r.body.password.v, BcryptRounds, salt)
            newUser == NewUser(users, NormalizeUsername(r.body.username),
                               NormalizeEmail(r.body.email), passwordHash, Now)
        IN  /\ users' = <<newUser>> \o users
            /\ last' = Exchange("register", r.body, Registered(newUser), 0, r.seen)
    /\ given' = Append(given, r.body)
    /\ Respond
    /\ inflight' = Resume(r)
    /\ UNCHANGED <<startup, validation, page, received>>

\* bcrypt.hash resolved: the rest of the handler
RegisterResume(r) ==
    /\ r \in Registering
    /\ \E salt \in Salts :
        LET passwordHash == BcryptHash(r.body.password.v, BcryptRounds, salt)
            newUser == NewUser(users, NormalizeUsername(r.body.username),
                               NormalizeEmail(r.body.email), passwordHash, Now)
        IN  /\ users' = Append(users, newUser)
            /\ last' = Exchange("register", r.body, Registered(newUser), 0, r.seen)
    /\ given' = Append(given, r.body)
    /\ Respond
    /\ inflight' = Resume(r)
    /\ UNCHANGED <<startup, validation, page, received>>

\* the user pushed before the hash is awaited, so that a rejected hash
\* leaves it in the table
RegisterHashRejected_AfterPush(r) ==
    /\ r \in Registering
    /\ users' = Append(users, NewUser(users, NormalizeUsername(r.body.username),
                                      NormalizeEmail(r.body.email), Undefined, Now))
    /\ last' = Exchange("register", r.body, Unexpected, 0, r.seen)
    /\ Respond
    /\ inflight' = Resume(r)
    /\ UNCHANGED <<startup, validation, page, received, given>>

\* bcrypt.hash rejected: the catch block
RegisterHashRejected(r) ==
    /\ r \in Registering
    /\ last' = Exchange("register", r.body, Unexpected, 0, r.seen)
    /\ Respond
    /\ inflight' = Resume(r)
    /\ UNCHANGED <<startup, validation, page, users, received, given>>

\* ------------------------------------------------------------------------
\* POST /login
\* ------------------------------------------------------------------------
LoginStart(body) ==
    /\ Receive
    /\ LET validationErrors == validateAuthPayload(body, FALSE)
       IN  IF Len(validationErrors) > 0
           THEN /\ last' = Exchange("login", body,
                                    ValidationFailed(validationErrors), 0, Len(users))
                /\ Respond
                /\ UNCHANGED inflight
           ELSE LET user == FindByEmail(users, NormalizeEmail(body.email))
                IN  IF user = 0
                    THEN /\ last' = Exchange("login", body, UserNotFound, 0, Len(users))
                         /\ Respond
                         /\ UNCHANGED inflight
                    ELSE /\ inflight' = Await(Suspended("login", body, user, Len(users)))
                         /\ UNCHANGED <<last, answered>>
    /\ UNCHANGED <<startup, validation, page, users, given>>

\* bcrypt.compare resolved: the rest of the handler, jwt.sign returning
LoginResume(r) ==
    /\ r \in LoggingIn
    /\ LET user == users[r.user]
           passwordMatch == BcryptCompare(r.body.password.v, user.passwordHash)
       IN  IF ~passwordMatch
           THEN last' = Exchange("login", r.body, PasswordMismatch, r.user, r.seen)
           ELSE last' = Exchange("login", r.body,
                                 LoggedIn(JwtSign(TokenPayload(user), JWT_SECRET, Now)),
                                 r.user, r.seen)
    /\ Respond
    /\ inflight' = Resume(r)
    /\ UNCHANGED <<startup, validation, page, users, received, given>>

\* bcrypt.compare rejected, or it resolved true and jwt.sign threw: the
\* catch block
LoginThrew(r) ==
    /\ r \in LoggingIn
    /\ last' = Exchange("login", r.body, Unexpected, r.user, r.seen)
    /\ Respond
    /\ inflight' = Resume(r)
    /\ UNCHANGED <<startup, validation, page, users, received, given>>

\* ------------------------------------------------------------------------
\* GET /
\* ------------------------------------------------------------------------
GetRoot ==
    /\ Receive
    /\ last' = Exchange("root", NoBody, RootResponse, 0, 0)
    /\ Respond
    /\ UNCHANGED <<startup, validation, page, users, given, inflight>>

Requests(registerBodies, loginBodies) ==
    \/ \E body \in registerBodies : RegisterStart(body)
    \/ \E r \in Registering : RegisterResume(r)
    \/ \E r \in Registering : RegisterHashRejected(r)
    \/ \E body \in loginBodies : LoginStart(body)
    \/ \E r \in LoggingIn : LoginResume(r)
    \/ \E r \in LoggingIn : LoginThrew(r)
    \/ GetRoot

Next == Requests(RegisterBodies, LoginBodies)

Spec == Init /\ [][Next]_vars

NextCredentials == Requests(CredentialRegisterBodies, CredentialLoginBodies)

SpecCredentials == Init /\ [][NextCredentials]_vars

\* ------------------------------------------------------------------------
\* validateAuthPayload called on its own
\* ------------------------------------------------------------------------
\* a value that is not a string and not falsy
Number42 == [t |-> "number", v |-> <<"4", "2">>]

Mail == <<"a", "@", "b", ".", "c">>
AtBC == <<"@", "b", ".", "c">>

\* missing, not a string, empty, blank; well formed, padded, malformed; at
\* the limit and past it, well formed or not, with and without padding;
\* past the limit only by its padding
ValidationEmails ==
    { Undefined, Number42, Str(<<>>), Str(<<" ", " ">>),
      Str(Mail), Str(<<" ", "A", "@", "B", ".", "c", " ">>), Str(<<"a", "b">>),
      Str(Rep("a", EmailMaxLen - 4) \o AtBC),
      Str(Rep("a", EmailMaxLen - 3) \o AtBC),
      Str(<<" ">> \o Rep("a", EmailMaxLen - 3) \o AtBC),
      Str(Rep("a", EmailMaxLen + 1)),
      Str(Mail \o Rep(" ", EmailMaxLen - 4)),
      Str(<<"a", "b">> \o Rep(" ", EmailMaxLen - 1)),
      Str(Rep(" ", EmailMaxLen + 1)) }

ValidationPasswords ==
    { Undefined, Number42, Str(<<>>), Str(<<" ", " ", " ">>),
      Str(<<"s", "h", "o", "r", "t">>),
      Str(<<"p", "a", "s", "s", "w", "0", "r">>),
      Str(Password3),
      Str(<<" ">> \o <<"p", "a", "s", "s", "w", "0", "r">>),
      Str(Rep(" ", PasswordMinLen)),
      Str(Rep("x", PasswordMaxLen)),
      Str(Rep("x", PasswordMaxLen + 1)),
      Str(Rep("x", PasswordMaxLen) \o <<" ", " ">>) }

ValidationUsernames ==
    { Undefined, Number42, Str(<<>>), Str(<<" ", " ">>),
      Str(<<"a", "l">>), Str(<<"b", "o", "b">>), Str(<<" ", "a", "l", " ">>),
      Str(Rep("u", UsernameMaxLen)), Str(Rep("u", UsernameMaxLen + 1)) }

\* every email with a few passwords and usernames, and every password and
\* username with a few emails
ValidationPayloads ==
    [email : ValidationEmails,
     password : {Undefined, Str(Password3), Str(<<"s", "h", "o", "r", "t">>)},
     username : {Undefined, Str(<<"b", "o", "b">>)}]
    \cup
    [email : {Undefined, Str(Mail), Str(<<"a", "b">>)},
     password : ValidationPasswords,
     username : ValidationUsernames]

\* the server started with a secret
Serving ==
    /\ Started
    /\ JWT_SECRET = Str(<<"k", "1">>)

InitValidation ==
    /\ Serving
    /\ PageLoaded
    /\ argPayload \in ValidationPayloads
    /\ argRequireUsername \in BOOLEAN
    /\ errors = <<>>
    /\ returned = FALSE

\* the call runs to its return
Validate ==
    /\ ~returned
    /\ errors' = validateAuthPayload(argPayload, argRequireUsername)
    /\ returned' = TRUE
    /\ UNCHANGED <<argPayload, argRequireUsername, server, page>>

NextValidation == Validate

SpecValidation == InitValidation /\ [][NextValidation]_vars

\* ------------------------------------------------------------------------
\* frontend/app.js: client-side validation
\* ------------------------------------------------------------------------
\* emailRegex.test(email); test reads its argument as a string, and the
\* text of a value that is not a string has no "@"
validateEmail(email) == IsString(email) /\ emailRegex(email.v)

validatePassword(password) ==
    IsString(password) /\ Len(password.v) >= ClientPasswordMinLen

\* ------------------------------------------------------------------------
\* frontend/app.js: the page
\* ------------------------------------------------------------------------
\* A text is the sequence of the pieces it was put together from.
RECURSIVE Join(_, _)
Join(parts, separator) ==
    IF Len(parts) <= 1 THEN parts
    ELSE <<Head(parts), separator>> \o Join(Tail(parts), separator)

\* clearMessages() and showMessage(type, text), on the #messages element el
clearMessages(el) ==
    [classList |-> el.classList \cup {"hidden"}, children |-> NoChildren]

showMessage(el, type, text) ==
    [classList |-> el.classList \ {"hidden"},
     children |-> << [className |-> <<"message", type>>, textContent |-> text] >>]

\* the first three statements after the client-side checks
Busy(button, label) ==
    [disabled |-> TRUE, classList |-> button.classList \cup {"loading"},
     textContent |-> label]

\* the finally block with the disabled flag left as it is
Restored_StillDisabled(button, label) ==
    [disabled |-> button.disabled, classList |-> button.classList \ {"loading"},
     textContent |-> label]

\* the finally block
Restored(button, label) ==
    [disabled |-> FALSE, classList |-> button.classList \ {"loading"},
     textContent |-> label]

\* What fetch resolves to, as far as the handlers read it: response.ok and,
\* of the parsed body, message ("" when it is missing or not a string),
\* errors (<<>> when it is missing, not an array or empty) and token.
NoResponse == [ok |-> FALSE, message |-> "", errors |-> <<>>, token |-> Undefined]

Token1 == Str(<<"j", "1">>)
Token2 == Str(<<"j", "2">>)

LoginResponses ==
    { [ok |-> TRUE, message |-> "Login successful.", errors |-> <<>>, token |-> Token1],
      [ok |-> TRUE, message |-> "Login successful.", errors |-> <<>>, token |-> Token2],
      [ok |-> TRUE, message |-> "", errors |-> <<>>, token |-> Undefined],
      [ok |-> FALSE, message |-> "Invalid email or password.", errors |-> <<>>,
       token |-> Undefined],
      [ok |-> FALSE, message |-> "Validation failed.",
       errors |-> <<"Password must be 128 characters or less.">>, token |-> Undefined] }

RegisterResponses ==
    { [ok |-> TRUE, message |-> "User registered successfully.", errors |-> <<>>,
       token |-> Undefined],
      [ok |-> FALSE, message |-> "This username is already taken.", errors |-> <<>>,
       token |-> Undefined],
      [ok |-> FALSE, message |-> "Validation failed.",
       errors |-> <<"Username must be at least 3 characters long.",
                    "Password must be 128 characters or less.">>,
       token |-> Undefined] }

\* what the user typed into the login form: nothing, a malformed or a well
\* formed email; nothing, a short or a long enough password
LoginInputs ==
    [email : {<<>>, <<"a", "b">>, <<" ", "a", "@", "b", ".", "c">>},
     password : {<<>>, <<"s", "h", "o", "r", "t">>, Password3}]

RegisterInputs ==
    [username : {<<>>, <<"b", "o", "b">>},
     email : {<<"a", "b">>, Mail},
     password : {<<"s", "h", "o", "r", "t">>, Password3},
     passwordConfirm : {Password3}]

Fetching == [at |-> "fetch", response |-> NoResponse]
Parsing(response) == [at |-> "json", response |-> response]

\* `${errorText}${backendErrors}`
ErrorText(response, fallback) ==
    <<IF response.message # "" THEN response.message ELSE fallback>>
        \o (IF response.errors # <<>>
            THEN <<" ">> \o Join(response.errors, " ")
            ELSE <<>>)

\* data.message || fallback
SuccessText(response, fallback) ==
    <<IF response.message # "" THEN response.message ELSE fallback>>

TokenHidden == [container |-> tokenContainer \cup {"hidden"}, output |-> <<>>]

\* the container shown whatever data.token is
TokenShown_Always(token) ==
    [container |-> tokenContainer \ {"hidden"}, output |-> token.v]

\* if (data.token) { ... } else { ... }
TokenShown(token) ==
    IF ~Falsy(token)
    THEN [container |-> tokenContainer \ {"hidden"}, output |-> token.v]
    ELSE TokenHidden

\* a click on a tab: switchTab(target)
TabClick(target) ==
    /\ activeTab' = target
    /\ messages' = clearMessages(messages)
    /\ UNCHANGED <<loginSubmit, registerSubmit, tokenContainer, tokenOutput,
                   loginCall, registerCall, lastToken, server, validation>>

\* a click on the logout button; the switchTab at its end clears the
\* message shown just before
LogoutClick ==
    /\ tokenOutput' = <<>>
    /\ tokenContainer' = tokenContainer \cup {"hidden"}
    /\ activeTab' = "login"
    /\ messages' =
          clearMessages(
              showMessage(clearMessages(messages), "success",
                          <<"You have been logged out successfully.">>))
    /\ UNCHANGED <<loginSubmit, registerSubmit, loginCall, registerCall, lastToken,
                   server, validation>>

\* submit of the login form, up to a return of the client-side checks or to
\* the await of fetch; the browser submits only a form that is shown and
\* whose submit button is enabled
LoginSubmit(input) ==
    /\ activeTab = "login"
    /\ ~loginSubmit.disabled
    /\ LET email == Trim(input.email)
           password == input.password
           cleared == clearMessages(messages)
       IN  IF email = <<>> \/ password = <<>>
           THEN /\ messages' = showMessage(cleared, "error",
                                           <<"Both email and password are required.">>)
                /\ UNCHANGED <<loginSubmit, loginCall>>
           ELSE LET afterEmail ==
                        IF ~validateEmail(Str(email))
                        THEN showMessage(cleared, "error",
                                         <<"Please provide a valid email.">>)
                        ELSE cleared
                    afterPassword ==
                        IF ~validatePassword(Str(password))
                        THEN showMessage(afterEmail, "error",
                                 <<"Password must be at least 8 characters long.">>)
                        ELSE afterEmail
                    hasErrors ==
                        ~validateEmail(Str(email)) \/ ~validatePassword(Str(password))
                IN  /\ messages' = afterPassword
                    /\ IF hasErrors
                       THEN UNCHANGED <<loginSubmit, loginCall>>
                       ELSE /\ loginSubmit' = Busy(loginSubmit, "Logging in...")
                            /\ loginCall' = Fetching
    /\ UNCHANGED <<activeTab, registerSubmit, tokenContainer, tokenOutput,
                   registerCall, lastToken, server, validation>>

\* fetch resolved: on to the await of response.json()
LoginFetchResolved(response) ==
    /\ loginCall.at = "fetch"
    /\ loginCall' = Parsing(response)
    /\ UNCHANGED <<activeTab, messages, loginSubmit, registerSubmit, tokenContainer,
                   tokenOutput, registerCall, lastToken, server, validation>>

\* the catch block and the finally block of the login handler
LoginCaught ==
    /\ messages' = showMessage(messages, "error",
                               <<"Network error. Please check the backend server.">>)
    /\ tokenContainer' = TokenHidden.container
    /\ tokenOutput' = TokenHidden.output
    /\ loginSubmit' = Restored(loginSubmit, "Log In")
    /\ loginCall' = Idle
    /\ UNCHANGED <<activeTab, registerSubmit, registerCall, lastToken, server,
                   validation>>

\* fetch rejected: the network failed
LoginFetchRejected ==
    /\ loginCall.at = "fetch"
    /\ LoginCaught

\* response.json() rejected: the body is not JSON
LoginJsonRejected ==
    /\ loginCall.at = "json"
    /\ LoginCaught

\* response.json() resolved: the rest of the try block and the finally
\* block
LoginJsonResolved ==
    /\ loginCall.at = "json"
    /\ LET response == loginCall.response
       IN  IF ~response.ok
           THEN /\ messages' =
                      showMessage(messages, "error",
                                  ErrorText(response, "Login failed. Please try again."))
                /\ tokenContainer' = TokenHidden.container
                /\ tokenOutput' = TokenHidden.output
                /\ UNCHANGED lastToken
           ELSE /\ messages' = showMessage(messages, "success",
                                           SuccessText(response, "Login successful."))
                /\ tokenContainer' = TokenShown(response.token).container
                /\ tokenOutput' = TokenShown(response.token).output
                /\ lastToken' = response.token
    /\ loginSubmit' = Restored(loginSubmit, "Log In")
    /\ loginCall' = Idle
    /\ UNCHANGED <<activeTab, registerSubmit, registerCall, server, validation>>

\* submit of the register form
RegisterSubmit(input) ==
    /\ activeTab = "register"
    /\ ~registerSubmit.disabled
    /\ LET username == Trim(input.username)
           email == Trim(input.email)
           password == input.password
           passwordConfirm == input.passwordConfirm
           cleared == clearMessages(messages)
       IN  IF username = <<>> \/ email = <<>> \/ password = <<>>
                  \/ passwordConfirm = <<>>
           THEN /\ messages' = showMessage(cleared, "error",
                                           <<"All fields are required.">>)
                /\ UNCHANGED <<registerSubmit, registerCall>>
           ELSE LET afterEmail ==
                        IF ~validateEmail(Str(email))
                        THEN showMessage(cleared, "error",
                                         <<"Please provide a valid email.">>)
                        ELSE cleared
                    afterPassword ==
                        IF ~validatePassword(Str(password))
                        THEN showMessage(afterEmail, "error",
                                 <<"Password must be at least 8 characters long.">>)
                        ELSE afterEmail
                    afterConfirm ==
                        IF password # passwordConfirm
                        THEN showMessage(afterPassword, "error",
                                 <<"Passwords do not match. Please re-enter your password.">>)
                        ELSE afterPassword
                    hasErrors ==
                        \/ ~validateEmail(Str(email))
                        \/ ~validatePassword(Str(password))
                        \/ password # passwordConfirm
                IN  /\ messages' = afterConfirm
                    /\ IF hasErrors
                       THEN UNCHANGED <<registerSubmit, registerCall>>
                       ELSE /\ registerSubmit' =
                                  Busy(registerSubmit, "Creating account...")
                            /\ registerCall' = Fetching
    /\ UNCHANGED <<activeTab, loginSubmit, tokenContainer, tokenOutput, loginCall,
                   lastToken, server, validation>>

RegisterFetchResolved(response) ==
    /\ registerCall.at = "fetch"
    /\ registerCall' = Parsing(response)
    /\ UNCHANGED <<activeTab, messages, loginSubmit, registerSubmit, tokenContainer,
                   tokenOutput, loginCall, lastToken, server, validation>>

\* the catch block and the finally block of the register handler
RegisterCaught ==
    /\ messages' = showMessage(messages, "error",
                               <<"Network error. Please check the backend server.">>)
    /\ registerSubmit' = Restored(registerSubmit, "Create Account")
    /\ registerCall' = Idle
    /\ UNCHANGED <<activeTab, loginSubmit, tokenContainer, tokenOutput, loginCall,
                   lastToken, server, validation>>

RegisterFetchRejected ==
    /\ registerCall.at = "fetch"
    /\ RegisterCaught

RegisterJsonRejected ==
    /\ registerCall.at = "json"
    /\ RegisterCaught

RegisterJsonResolved ==
    /\ registerCall.at = "json"
    /\ LET response == registerCall.response
       IN  IF ~response.ok
           THEN messages' =
                    showMessage(messages, "error",
                                ErrorText(response,
                                          "Registration failed. Please try again."))
           ELSE messages' = showMessage(messages, "success",
                                        SuccessText(response, "Registration successful."))
    /\ registerSubmit' = Restored(registerSubmit, "Create Account")
    /\ registerCall' = Idle
    /\ UNCHANGED <<activeTab, loginSubmit, tokenContainer, tokenOutput, loginCall,
                   lastToken, server, validation>>

InitPage ==
    /\ Serving
    /\ NotCalled
    /\ PageLoaded

LoginSettles ==
    \/ \E response \in LoginResponses : LoginFetchResolved(response)
    \/ LoginFetchRejected
    \/ LoginJsonResolved
    \/ LoginJsonRejected

RegisterSettles ==
    \/ \E response \in RegisterResponses : RegisterFetchResolved(response)
    \/ RegisterFetchRejected
    \/ RegisterJsonResolved
    \/ RegisterJsonRejected

NextPage ==
    \/ \E target \in {"login", "register"} : TabClick(target)
    \/ LogoutClick
    \/ \E input \in LoginInputs : LoginSubmit(input)
    \/ LoginSettles
    \/ \E input \in RegisterInputs : RegisterSubmit(input)
    \/ RegisterSettles

SpecPage == InitPage /\ [][NextPage]_vars

\* a promise that was awaited settles, and the event loop then runs the
\* rest of the handler
SpecPageFair ==
    /\ SpecPage
    /\ WF_vars(LoginSettles)
    /\ WF_vars(RegisterSettles)

\* ------------------------------------------------------------------------
\* Properties
\* ------------------------------------------------------------------------
StoredEmailNormalized(k) == ToLowerCase(Trim(users[k].email))
StoredUsernameNormalized(k) == ToLowerCase(Trim(users[k].username))

\* C1: no two stored accounts have the same normalized (trimmed,
\* lower-cased) email, whatever the interleaving of /register requests.
C1_EmailsUnique ==
    \A i \in 1..Len(users) : \A j \in 1..Len(users) :
        i # j => StoredEmailNormalized(i) # StoredEmailNormalized(j)

\* C2: no two stored accounts have usernames that are equal when compared
\* case-insensitively, whatever the interleaving of /register requests.
C2_UsernamesUnique ==
    \A i \in 1..Len(users) : \A j \in 1..Len(users) :
        i # j => StoredUsernameNormalized(i) # StoredUsernameNormalized(j)

\* C3: the k-th account of the table has id k, so ids are 1, 2, 3, ... in
\* append order and no two accounts share one.
C3_IdIsPosition ==
    \A k \in 1..Len(users) : users[k].id = k

C3_Witness ==
    /\ Len(users) = 2
    /\ users[1].id = 1
    /\ users[2].id = 2

\* C4: the table changes only in a step that answers a /register with 201,
\* and then by exactly one appended account; a /register answered 400, 409
\* or 500 leaves the table as it was; the accounts are as many as the 201s.
C4_OnlyCreatedAppends ==
    /\ [](Len(users) = Len(given))
    /\ [][users' # users =>
            /\ last'.kind = "register"
            /\ last'.status = 201
            /\ Len(users') = Len(users) + 1
            /\ SubSeq(users', 1, Len(users)) = users]_vars
    /\ [][(last' # last /\ last'.kind = "register"
              /\ last'.status \in {400, 409, 500}) => users' = users]_vars

C4_Witness ==
    /\ last.kind = "register"
    /\ last.status = 500
    /\ Len(users) = 1
    /\ Len(given) = 1

\* C5: a /register that passes validation is answered 409 with the message
\* for both when some account has its normalized email and some account has
\* its username case-insensitively, with the message for the email when
\* only the email is taken, with the message for the username when only the
\* username is taken; the three messages differ.
EmailTaken(body) ==
    \E k \in 1..Len(users) : StoredEmailNormalized(k) = ToLowerCase(Trim(body.email.v))
UsernameTaken(body) ==
    \E k \in 1..Len(users) :
        StoredUsernameNormalized(k) = ToLowerCase(Trim(body.username.v))

DuplicateBoth == "Both username and email are already taken."
DuplicateEmail == "An account with this email already exists."
DuplicateUsername == "This username is already taken."

\* a step in which a /register handler ran from its start to a response
\* without suspending
RegisterAnsweredAtOnce ==
    /\ received' = received + 1
    /\ users' = users
    /\ inflight' = inflight
    /\ last'.kind = "register"

C5_DuplicateKinds ==
    /\ [][(/\ RegisterAnsweredAtOnce
           /\ validateAuthPayload(last'.body, TRUE) = <<>>
           /\ EmailTaken(last'.body) \/ UsernameTaken(last'.body))
          => /\ last'.status = 409
             /\ last'.json.message =
                    IF EmailTaken(last'.body) /\ UsernameTaken(last'.body)
                    THEN DuplicateBoth
                    ELSE IF EmailTaken(last'.body) THEN DuplicateEmail
                    ELSE DuplicateUsername
             /\ Cardinality({DuplicateBoth, DuplicateEmail, DuplicateUsername}) = 3]_vars
    /\ [][\A r \in BagToSet(inflight') :
             (r.kind = "register" /\ CopiesIn(r, inflight') > CopiesIn(r, inflight))
             => ~EmailTaken(r.body) /\ ~UsernameTaken(r.body)]_vars

\* both taken, by two different accounts
C5_Witness ==
    /\ last.kind = "register"
    /\ last.status = 409
    /\ last.json.message = DuplicateBoth
    /\ Len(users) = 2
    /\ StoredEmailNormalized(1) = ToLowerCase(Trim(last.body.email.v))
    /\ StoredUsernameNormalized(1) # ToLowerCase(Trim(last.body.username.v))
    /\ StoredUsernameNormalized(2) = ToLowerCase(Trim(last.body.username.v))
    /\ StoredEmailNormalized(2) # ToLowerCase(Trim(last.body.email.v))

\* ------------------------------------------------------------------------
\* Properties of /login
\* ------------------------------------------------------------------------
InvalidCredentialsJson ==
    [success |-> FALSE, message |-> "Invalid email or password."]

\* the last exchange is a /login with an acceptable payload whose email
\* matched no account
LoginEmailUnknown ==
    /\ last.kind = "login"
    /\ validateAuthPayload(last.body, FALSE) = <<>>
    /\ last.user = 0

\* the last exchange is a /login whose email matched an account and whose
\* password bcrypt.compare found not to verify
LoginPasswordWrong ==
    /\ last.kind = "login"
    /\ last.user # 0
    /\ last.status # 500
    /\ ~BcryptCompare(last.body.password.v, users[last.user].passwordHash)

\* C6: a /login whose email matches no account and a /login whose password
\* does not verify get the same response: status 401, the same message, no
\* token.
C6_SameInvalidCredentials ==
    (LoginEmailUnknown \/ LoginPasswordWrong)
        => /\ last.status = 401
           /\ last.json = InvalidCredentialsJson
           /\ "token" \notin DOMAIN last.json

C6_Witness ==
    /\ LoginPasswordWrong
    /\ last.status = 401
    /\ \E k \in 1..Len(users) :
           StoredEmailNormalized(k) = ToLowerCase(Trim(last.body.email.v))

\* C7: /login answers 200 with a token only when the submitted password is
\* the one given at the registration of the account found for the email;
\* with any other accepted password it answers 401 and issues no token.
C7_OnlyRegisteredPassword ==
    (last.kind = "login" /\ last.user # 0 /\ last.status # 500)
        => IF last.body.password = given[last.user].password
           THEN last.status = 200
           ELSE last.status = 401 /\ "token" \notin DOMAIN last.json

\* C8: once a /register with email e and password p was answered 201, every
\* /login begun later with p and an email of the same normalized form is
\* answered 200 with a token (unless a primitive failed: 500).
C8_RegisteredCanLogIn ==
    (/\ last.kind = "login"
     /\ last.status # 500
     /\ \E k \in 1..last.seen :
           /\ given[k].password = last.body.password
           /\ ToLowerCase(Trim(given[k].email.v))
                  = ToLowerCase(Trim(last.body.email.v)))
        => last.status = 200 /\ "token" \in DOMAIN last.json

LoginSucceeded == last.kind = "login" /\ last.status = 200

\* C9 as stated: the verified token yields exactly the id, username and
\* email of the authenticated account and no other field.
C9_ExactlyThreeClaims ==
    LoginSucceeded
        => JwtVerify(last.json.token, JWT_SECRET)
               = [id |-> users[last.user].id,
                  username |-> users[last.user].username,
                  email |-> users[last.user].email]

\* C9 amended: the verified token yields the id, username and email of the
\* authenticated account, the issued-at and expiry claims iat and exp
\* (exp one hour after iat), and no other field.
C9_ThreeClaimsAndExpiry ==
    LoginSucceeded
        => LET claims == JwtVerify(last.json.token, JWT_SECRET)
           IN  /\ DOMAIN claims = {"id", "username", "email", "iat", "exp"}
               /\ claims.id = users[last.user].id
               /\ claims.username = users[last.user].username
               /\ claims.email = users[last.user].email
               /\ claims.exp = claims.iat + 3600

C9_Witness ==
    /\ LoginSucceeded
    /\ last.user = 1
    /\ JwtVerify(last.json.token, JWT_SECRET).id = 1
    /\ JwtVerify(last.json.token, JWT_SECRET).email = users[1].email
    /\ "exp" \in DOMAIN JwtVerify(last.json.token, JWT_SECRET)

\* C10: no response of /register or /login carries a password hash, in its
\* body or in the claims of its token; the 201 of /register carries the
\* success flag and a message and nothing else.
C10_NoHashInResponses ==
    last.kind \in {"register", "login"}
        => /\ DOMAIN last.json \subseteq {"success", "message", "errors", "token"}
           /\ "token" \in DOMAIN last.json
                  => DOMAIN last.json.token.payload
                         \subseteq {"id", "username", "email", "iat", "exp"}
           /\ (last.kind = "register" /\ last.status = 201)
                  => DOMAIN last.json = {"success", "message"}

C10_Witness ==
    /\ last.kind = "register"
    /\ last.status = 201
    /\ Len(users) = 2
    /\ users[2].username = Trim(last.body.username.v)

\* C11: when the signing secret is absent from the environment the process
\* has exited with a non-zero code and never listens: no request is handled,
\* no handler runs, no account is stored and no token is signed; a token
\* that was issued verifies under the secret of the environment, so no
\* default secret stood in for it.
C11_NoSecretNoService ==
    /\ Falsy(JWT_SECRET)
           => /\ exited
              /\ exitCode # 0
              /\ ~listening
              /\ received = 0
              /\ answered = 0
              /\ inflight = EmptyBag
              /\ users = <<>>
              /\ last.kind = "none"
    /\ (last.kind = "login" /\ last.status = 200)
           => /\ ~Falsy(JWT_SECRET)
              /\ JwtVerify(last.json.token, JWT_SECRET) = last.json.token.payload

C11_Witness ==
    /\ JWT_SECRET = Undefined
    /\ exited
    /\ exitCode = 1
    /\ ~listening

\* C12: when the hashing, the comparison or the signing fails while a
\* request is handled, the request gets one response, the 500 with the
\* generic message; no account is appended, no token is issued, and the
\* server goes on listening.  Every request received is either answered
\* once or still suspended.
UnexpectedJson == [success |-> FALSE, message |-> "An unexpected error occurred."]

C12_FailureAnswered500 ==
    /\ [][\A r \in BagToSet(inflight) :
              (RegisterHashRejected(r) \/ LoginThrew(r))
                  => /\ last'.kind = r.kind
                     /\ last'.body = r.body
                     /\ last'.status = 500
                     /\ last'.json = UnexpectedJson
                     /\ users' = users
                     /\ given' = given
                     /\ answered' = answered + 1
                     /\ CopiesIn(r, inflight') = CopiesIn(r, inflight) - 1
                     /\ listening'
                     /\ ~exited']_vars
    /\ [](answered + BagCardinality(inflight) = received)

C12_Witness ==
    /\ last.kind = "login"
    /\ last.status = 500
    /\ last.json = UnexpectedJson
    /\ Len(users) = 1
    /\ answered = received

\* the messages of each field
EmailMessages ==
    { "Email is required.", "Email must be 254 characters or less.",
      "Email format is invalid." }
PasswordMessages ==
    { "Password is required.", "Password must be at least 8 characters long.",
      "Password must be 128 characters or less." }
UsernameMessages ==
    { "Username is required.", "Username must be at least 3 characters long.",
      "Username must be 30 characters or less." }

Reports(message) == \E k \in 1..Len(errors) : errors[k] = message
ReportsAnyOf(fieldMessages) == \E k \in 1..Len(errors) : errors[k] \in fieldMessages

\* C13 as stated: an email of more than 254 characters gets the length
\* message and never the format message.
C13_LongEmailOnlyLength ==
    (returned /\ IsString(argPayload.email) /\ Len(argPayload.email.v) > EmailMaxLen)
        => /\ Reports("Email must be 254 characters or less.")
           /\ ~Reports("Email format is invalid.")

\* C13: an email that has more than 254 characters after trimming gets the
\* length message and no other email message, never the format message.
C13_LongTrimmedEmailOnlyLength ==
    (/\ returned
     /\ IsString(argPayload.email)
     /\ Len(Trim(argPayload.email.v)) > EmailMaxLen)
        => /\ Reports("Email must be 254 characters or less.")
           /\ ~Reports("Email format is invalid.")
           /\ ~Reports("Email is required.")

C13_Witness ==
    /\ returned
    /\ IsString(argPayload.email)
    /\ Len(argPayload.email.v) = EmailMaxLen + 2
    /\ Len(Trim(argPayload.email.v)) = EmailMaxLen + 1
    /\ emailRegex(Trim(argPayload.email.v))
    /\ Reports("Email must be 254 characters or less.")

\* C14 as stated: a password of 8 to 128 characters gets no password
\* message.
C14_PasswordInRangeAccepted ==
    (/\ returned
     /\ IsString(argPayload.password)
     /\ Len(argPayload.password.v) >= PasswordMinLen
     /\ Len(argPayload.password.v) <= PasswordMaxLen)
        => ~ReportsAnyOf(PasswordMessages)

\* C14: a password that has 8 to 128 characters after trimming gets no
\* password message.
C14_TrimmedPasswordInRangeAccepted ==
    (/\ returned
     /\ IsString(argPayload.password)
     /\ Len(Trim(argPayload.password.v)) >= PasswordMinLen
     /\ Len(Trim(argPayload.password.v)) <= PasswordMaxLen)
        => ~ReportsAnyOf(PasswordMessages)

C14_Witness ==
    /\ returned
    /\ IsString(argPayload.password)
    /\ Len(argPayload.password.v) = PasswordMaxLen + 2
    /\ Len(Trim(argPayload.password.v)) = PasswordMaxLen
    /\ ~ReportsAnyOf(PasswordMessages)

\* a field that is missing, not a string, or blank after trimming
Missing(x) == x = Undefined
Blank(x) == IsString(x) /\ \A k \in 1..Len(x.v) : IsSpace(x.v[k])
NotGiven(x) == Missing(x) \/ ~IsString(x) \/ Blank(x)

\* C15: a required field that is missing, not a string, or blank after
\* trimming gets its "... is required." message, so the list is not empty;
\* the username is required only when requireUsername is set, and gets no
\* message at all when it is not.
C15_RequiredFieldsReported ==
    returned
        => /\ NotGiven(argPayload.email)
                 => errors # <<>> /\ Reports("Email is required.")
           /\ NotGiven(argPayload.password)
                 => errors # <<>> /\ Reports("Password is required.")
           /\ (argRequireUsername /\ NotGiven(argPayload.username))
                 => errors # <<>> /\ Reports("Username is required.")
           /\ ~argRequireUsername => ~ReportsAnyOf(UsernameMessages)

C15_Witness ==
    /\ returned
    /\ argRequireUsername
    /\ Missing(argPayload.email)
    /\ Blank(argPayload.password) /\ argPayload.password.v # <<>>
    /\ argPayload.username = Number42
    /\ errors = <<"Email is required.", "Password is required.",
                  "Username is required.">>

\* C16: while a login (or register) request is in flight, from the fetch
\* to the end of the handling of its response or failure, the submit
\* button of its form is disabled; the step that ends the handling leaves
\* the button enabled under its original label, and every request in flight
\* leads to that.
LoginButtonRestored ==
    /\ loginCall.at = "idle"
    /\ ~loginSubmit.disabled
    /\ loginSubmit.textContent = "Log In"

RegisterButtonRestored ==
    /\ registerCall.at = "idle"
    /\ ~registerSubmit.disabled
    /\ registerSubmit.textContent = "Create Account"

C16_ButtonDisabledUntilHandled ==
    /\ [](loginCall.at # "idle" => loginSubmit.disabled)
    /\ [](registerCall.at # "idle" => registerSubmit.disabled)
    /\ (loginCall.at # "idle") ~> LoginButtonRestored
    /\ (registerCall.at # "idle") ~> RegisterButtonRestored

C16_Witness ==
    /\ LoginButtonRestored
    /\ messages.children # NoChildren
    /\ messages.children[1].textContent =
           <<"Network error. Please check the backend server.">>
    /\ registerCall.at = "json"
    /\ registerSubmit.disabled
    /\ registerSubmit.textContent = "Creating account..."

\* C17: the token container is shown only while the token output holds a
\* token that is not empty and is the one returned by the last login that
\* was answered ok.
C17_TokenShownIsLastToken ==
    "hidden" \notin tokenContainer
        => /\ tokenOutput # <<>>
           /\ lastToken = Str(tokenOutput)

C17_Witness ==
    /\ "hidden" \notin tokenContainer
    /\ tokenOutput = Token2.v
    /\ loginCall.at = "idle"
    /\ messages.children # NoChildren
    /\ messages.children[1].textContent = <<"Please provide a valid email.">>

\* C18: the client-side checks mirror the backend rules: validateEmail and
\* validatePassword accept a value exactly when validateAuthPayload has no
\* message for that field, and a payload the login form sends (the email
\* trimmed, both fields filled and accepted by the two checks) gets no
\* message from the backend.
FormSends(input) ==
    /\ IsString(input.email)
    /\ IsString(input.password)
    /\ Trim(input.email.v) # <<>>
    /\ input.password.v # <<>>
    /\ validateEmail(Str(Trim(input.email.v)))
    /\ validatePassword(input.password)

C18_ClientMirrorsBackend ==
    returned
        => /\ validateEmail(argPayload.email) <=> EmailErrors(argPayload.email) = <<>>
           /\ validatePassword(argPayload.password)
                  <=> PasswordErrors(argPayload.password) = <<>>
           /\ FormSends(argPayload)
                  => validateAuthPayload(
                         [email |-> Str(Trim(argPayload.email.v)),
                          password |-> argPayload.password,
                          username |-> Undefined], FALSE) = <<>>

\* C19: a /register request whose payload fails validation is answered 400
\* "Validation failed." with the whole list of its errors, whatever the
\* table holds: never 409, also when its email or username is taken; and it
\* never gets as far as the hashing.
C19_InvalidRegisterAnswered400 ==
    /\ (last.kind = "register" /\ validateAuthPayload(last.body, TRUE) # <<>>)
           => /\ last.status = 400
              /\ last.json = [success |-> FALSE, message |-> "Validation failed.",
                              errors |-> validateAuthPayload(last.body, TRUE)]
    /\ \A r \in Registering : validateAuthPayload(r.body, TRUE) = <<>>

C19_Witness ==
    /\ last.kind = "register"
    /\ last.status = 400
    /\ last.json.errors = <<"Username must be at least 3 characters long.">>
    /\ EmailTaken(last.body)

\* the messages of one field in the result, in the order of the result
IsEmailMessage(message) == message \in EmailMessages
IsPasswordMessage(message) == message \in PasswordMessages
IsUsernameMessage(message) == message \in UsernameMessages
EmailPart == SelectSeq(errors, IsEmailMessage)
PasswordPart == SelectSeq(errors, IsPasswordMessage)
UsernamePart == SelectSeq(errors, IsUsernameMessage)

\* a payload that passes, in which one field at a time is replaced
PassingPayload ==
    [email |-> Str(Mail), password |-> Str(Password3),
     username |-> Str(<<"b", "o", "b">>)]

\* C20: the result holds at most one message for each field, the email's
\* first, then the password's, then the username's, and nothing else; the
\* message of a field is the one the field gets when the other two fields
\* pass, so no failure suppresses or changes the message of another field.
C20_AllFailuresCollected ==
    returned
        => /\ Len(EmailPart) <= 1
           /\ Len(PasswordPart) <= 1
           /\ Len(UsernamePart) <= 1
           /\ errors = EmailPart \o PasswordPart \o UsernamePart
           /\ EmailPart =
                  validateAuthPayload(
                      [PassingPayload EXCEPT !.email = argPayload.email],
                      argRequireUsername)
           /\ PasswordPart =
                  validateAuthPayload(
                      [PassingPayload EXCEPT !.password = argPayload.password],
                      argRequireUsername)
           /\ UsernamePart =
                  validateAuthPayload(
                      [PassingPayload EXCEPT !.username = argPayload.username],
                      argRequireUsername)

C20_Witness ==
    /\ returned
    /\ argRequireUsername
    /\ errors = <<"Email format is invalid.",
                  "Password must be at least 8 characters long.",
                  "Username must be 30 characters or less.">>

\* a string without whitespace at either end
NoSurroundingSpace(s) == s = <<>> \/ (~IsSpace(s[1]) /\ ~IsSpace(s[Len(s)]))
\* a string without an upper-case letter
NoUpperCase(s) == \A i \in 1..Len(s) : \A j \in 1..26 : s[i] # UpperCaseLetters[j]

\* C21: the k-th stored account holds the email of the k-th registration
\* answered 201, trimmed and lower-cased, and its username, trimmed and in
\* the case it was sent in; so a stored email has no surrounding whitespace
\* and no upper-case letter and is its own normalized form, and a stored
\* username has no surrounding whitespace and 3 to 30 characters.
C21_StoredAsNormalized ==
    /\ Len(users) = Len(given)
    /\ \A k \in 1..Len(users) :
          /\ users[k].email = ToLowerCase(Trim(given[k].email.v))
          /\ users[k].username = Trim(given[k].username.v)
          /\ users[k].email = ToLowerCase(Trim(users[k].email))
          /\ NoSurroundingSpace(users[k].email)
          /\ NoUpperCase(users[k].email)
          /\ NoSurroundingSpace(users[k].username)
          /\ Len(Trim(users[k].username)) >= UsernameMinLen
          /\ Len(Trim(users[k].username)) <= UsernameMaxLen

C21_Witness ==
    \E k \in 1..Len(users) :
        /\ given[k].username.v = <<" ", "B", "o", "b">>
        /\ given[k].email.v = <<" ", "A", "@", "B", ".", "c", " ">>
        /\ users[k].username = <<"B", "o", "b">>
        /\ users[k].email = <<"a", "@", "b", ".", "c">>

\* a step of the /login handler or of GET /: a login is suspended, a
\* suspended login goes on to its response, or a login or GET / is answered
LoginOrRootStep ==
    \/ \E r \in BagToSet(inflight') :
          r.kind = "login" /\ CopiesIn(r, inflight') > CopiesIn(r, inflight)
    \/ \E r \in LoggingIn : CopiesIn(r, inflight') < CopiesIn(r, inflight)
    \/ (answered' = answered + 1 /\ last'.kind \in {"login", "root"})

\* C22: the table is append-only: in every step each stored account stays
\* at its position with its id, username, email, passwordHash and createdAt
\* unchanged, so what was once stored is there after any sequence of
\* requests; a step of /login or of GET / leaves the table as it is.
C22_TableAppendOnly ==
    /\ [][/\ Len(users') >= Len(users)
          /\ \A k \in 1..Len(users) :
                /\ users'[k].id = users[k].id
                /\ users'[k].username = users[k].username
                /\ users'[k].email = users[k].email
                /\ users'[k].passwordHash = users[k].passwordHash
                /\ users'[k].createdAt = users[k].createdAt]_vars
    /\ [][LoginOrRootStep => users' = users]_vars

C22_Witness ==
    /\ Len(users) = 2
    /\ users[1].id = 1
    /\ users[2].id = 2
    /\ last.kind = "login"
    /\ last.status = 200
    /\ last.seen = 2

\* C23: when the click handler of the logout button finishes, the token
\* output is empty, the token container is hidden, the login tab is active,
\* and the message area shows the success message "You have been logged out
\* successfully.".  Stated for the clicks made while a token is shown: those
\* are steps that no other handler can make.
LoggedOutMessage ==
    << [className |-> <<"message", "success">>,
        textContent |-> <<"You have been logged out successfully.">>] >>

C23_LogoutShowsMessage ==
    [][("hidden" \notin tokenContainer /\ LogoutClick)
          => /\ tokenOutput' = <<>>
             /\ "hidden" \in tokenContainer'
             /\ activeTab' = "login"
             /\ "hidden" \notin messages'.classList
             /\ messages'.children = LoggedOutMessage]_vars

====
